---- MODULE Spec2Model ----
(***************************************************************************)
(* OutfitOO backend (src/main.py): signed-cookie sessions, the Google      *)
(* OAuth authorization-code flow, login-gated pages and the upload /       *)
(* generate pipeline over an external object store and row store.          *)
(*                                                                         *)
(* Every route handler is one action, except POST /api/generate, which is  *)
(* split at its two external calls (storage upload, database insert) so    *)
(* that requests in flight interleave.  Time is in whole seconds, as the   *)
(* timestamp embedded in a session token is.                               *)
(***************************************************************************)
EXTENDS Integers, Sequences, FiniteSets, TLC

\* ---------------------------------------------------------------- bounds
\* seconds the clock may run past MAX_AGE
MaxSlack == 1
\* session tokens the OAuth callback issues in one behaviour
MaxIssued == 2
\* storage keys (uuid4 draws) handed out in one behaviour
MaxUploads == 2

\* ------------------------------------------------------ program constants
\* max_age of serializer.loads and of the cookie
MAX_AGE == 86400
MaxTime == MAX_AGE + MaxSlack

COOKIE_NAME == "outfitoo_session"
DEFAULT_SECRET_KEY == "unsafe-default-key"
TEMPLATE_LANDING == "landing_page.html"
TEMPLATE_DASHBOARD == "dashboard.html"
TEMPLATE_HISTORY == "history.html"
AUTH_URL == "https://accounts.google.com/o/oauth2/v2/auth"

\* ---------------------------------------------------------- Python values
\* None where a string is expected (os.environ.get, query parameters);
\* urlencode renders it as the text "None"
None == "None"
\* None where an e-mail is expected; e-mails are sequences of characters
NoEmail == <<"None">>
\* truth value of an optional string / of an optional e-mail
Truthy(s) == s # None /\ s # ""
TruthyEmail(e) == e # NoEmail /\ e # <<>>

Alice == <<"a", "@", "x", ".", "y">>
Bob == <<"b", "@", "x", ".", "y">>
Emails == {Alice, Bob}

\* ------------------------------------------------------------- variables
VARIABLES
    config,     \* environment read at import time (lines 24-31, 36-41)
    now,        \* the server clock, whole seconds
    issued,     \* session tokens ever handed out by google_callback
    storage,    \* bucket "outfit_images": the objects uploaded
    db,         \* table "generated_outfits": the rows inserted
    uuids,      \* number of uuid4 values drawn so far
    inflight,   \* POST /api/generate requests past the gate, by slot
    resp        \* the response most recently sent

vars == <<config, now, issued, storage, db, uuids, inflight, resp>>

\* ---------------------------------------------------------- Session Codec
\* keyed MAC of itsdangerous: equal exactly when key, payload and timestamp are
Sign(key, payload, ts) == <<key, payload, ts>>

\* the JSON payloads: {"email": e} and a payload that is no object
Dict(e) == [type |-> "dict", email |-> e]
NotADict == [type |-> "list", email |-> NoEmail]
NoPayload == [type |-> "none", email |-> NoEmail]

\* cookie values that are no token: no cookie, "", text without a signature
Absent == [form |-> "absent", payload |-> NoPayload, ts |-> 0, sig |-> Sign("", NoPayload, 0)]
EmptyCookie == [form |-> "empty", payload |-> NoPayload, ts |-> 0, sig |-> Sign("", NoPayload, 0)]
Garbage == [form |-> "garbage", payload |-> NoPayload, ts |-> 0, sig |-> Sign("", NoPayload, 0)]

\* URLSafeTimedSerializer(key).dumps(payload) at time ts
SignedToken(key, payload, ts) ==
    [form |-> "token", payload |-> payload, ts |-> ts, sig |-> Sign(key, payload, ts)]

serializer_dumpsDefaultKey(payload) == SignedToken(DEFAULT_SECRET_KEY, payload, now)

serializer_dumps(payload) == SignedToken(config.SESSION_SECRET_KEY, payload, now)

\* serializer.loads(token, max_age) returns (TRUE) or raises (FALSE):
\* BadSignature on a malformed or mismatching token, SignatureExpired when
\* the age exceeds max_age
LoadsOkNoExpiry(token, max_age) ==
    /\ token.form = "token"
    /\ token.sig = Sign(config.SESSION_SECRET_KEY, token.payload, token.ts)

LoadsOkStrict(token, max_age) ==
    /\ token.form = "token"
    /\ token.sig = Sign(config.SESSION_SECRET_KEY, token.payload, token.ts)
    /\ now - token.ts < max_age

LoadsOkIssuedOnly(token, max_age) ==
    /\ token \in issued
    /\ token.sig = Sign(config.SESSION_SECRET_KEY, token.payload, token.ts)
    /\ ~(now - token.ts > max_age)

LoadsOk(token, max_age) ==
    /\ token.form = "token"
    /\ token.sig = Sign(config.SESSION_SECRET_KEY, token.payload, token.ts)
    /\ ~(now - token.ts > max_age)

\* get_current_user_email: the e-mail of the session cookie, or None
get_current_user_email(cookie) ==
    IF cookie.form \in {"absent", "empty"} THEN NoEmail
    ELSE IF ~LoadsOk(cookie, MAX_AGE) THEN NoEmail
    ELSE IF cookie.payload.type # "dict" THEN NoEmail
    ELSE cookie.payload.email

\* require_login raises HTTPException(307, Location "/") when this holds
LoginRequired(cookie) == ~TruthyEmail(get_current_user_email(cookie))

\* -------------------------------------------------------------- requests
\* tokens a client can build from a token it was given
Tampered(t) ==
    {[t EXCEPT !.payload = Dict(e)] : e \in Emails \ {t.payload.email}}
        \cup {[t EXCEPT !.ts = now]}
        \cup {[t EXCEPT !.sig = Sign("guessed-key", t.payload, t.ts)]}

\* tokens a client can sign itself
Forged ==
    {SignedToken(DEFAULT_SECRET_KEY, p, now) : p \in {Dict(Alice), NotADict, Dict(<<>>)}}

\* the cookie values a request may carry
Cookies ==
    {Absent, EmptyCookie, Garbage} \cup issued
        \cup UNION {Tampered(t) : t \in issued} \cup Forged

\* the cookie values sent to the outfit routes: none, a malformed one, the
\* tokens handed out and those with the e-mail swapped
OutfitCookies ==
    {Absent, Garbage} \cup issued
        \cup {[t EXCEPT !.payload = Dict(e)] : t \in issued, e \in Emails}

\* the cookie values sent along with a logout: none, a malformed one, or a
\* token handed out earlier (fresh or expired)
LogoutCookies == {Absent, Garbage} \cup issued

\* ------------------------------------------------------------- responses
NoSetCookie ==
    [op |-> "none", key |-> "", value |-> Absent, httponly |-> FALSE,
     max_age |-> 0, samesite |-> ""]
NoFile == [filename |-> <<>>, content |-> <<>>, content_type |-> None]
NoPath == [folder |-> <<>>, file_uuid |-> 0, ext |-> <<>>]
NoUrl == <<"", NoPath>>

\* an external call a handler made, and whether it returned (TRUE) or raised
Call(op, ok) == [op |-> op, ok |-> ok]

Blank ==
    [route |-> "none", cookie |-> Absent, at |-> 0,
     status |-> 0, location |-> <<>>, body |-> "", user_email |-> NoEmail,
     set_cookie |-> NoSetCookie, calls |-> <<>>,
     code |-> None, error |-> None, token_resp |-> "", user_resp |-> "",
     provider_email |-> NoEmail,
     user_photo |-> NoFile, outfit_photo |-> NoFile,
     file_path |-> NoPath, image_url |-> NoUrl, images |-> <<>>]

Request(route, cookie) == [Blank EXCEPT !.route = route, !.cookie = cookie, !.at = now]

\* RedirectResponse(url, status_code)
RedirectResponse(r, url, code) == [r EXCEPT !.status = code, !.location = url]

\* templates.TemplateResponse(name, context)
TemplateResponseRefreshing(r, name, email) ==
    [r EXCEPT !.status = 200, !.body = name, !.user_email = email,
              !.set_cookie =
                  IF TruthyEmail(email)
                  THEN [op |-> "set", key |-> COOKIE_NAME,
                        value |-> serializer_dumps(Dict(email)),
                        httponly |-> TRUE, max_age |-> MAX_AGE, samesite |-> "lax"]
                  ELSE NoSetCookie]

TemplateResponse(r, name, email) ==
    [r EXCEPT !.status = 200, !.body = name, !.user_email = email]

\* the response FastAPI makes of require_login's HTTPException
NotAuthorized(r) ==
    [r EXCEPT !.status = 307, !.location = <<"/">>, !.body = "Not authorized"]

\* ------------------------------------------------------------------ Init
\* the environments the process is started in: everything set, or one of
\* the variables unset (SESSION_SECRET_KEY then takes its default, and
\* supabase stays None without SUPABASE_URL / SUPABASE_SERVICE_KEY)
Configured ==
    [GOOGLE_CLIENT_ID |-> "client-id", GOOGLE_REDIRECT_URI |-> "redirect-uri",
     SESSION_SECRET_KEY |-> "server-secret", supabase |-> TRUE]
Configs ==
    {Configured,
     [Configured EXCEPT !.GOOGLE_CLIENT_ID = None],
     [Configured EXCEPT !.GOOGLE_REDIRECT_URI = None],
     [Configured EXCEPT !.SESSION_SECRET_KEY = DEFAULT_SECRET_KEY],
     [Configured EXCEPT !.supabase = FALSE]}

\* the two POST /api/generate requests that may be in flight at once
Requests == {1, 2}

\* a request in flight: the request, the caller the gate resolved, the
\* storage key and the external calls made so far
Idle ==
    [pc |-> "idle", cookie |-> Absent, at |-> 0, user_email |-> NoEmail,
     user_photo |-> NoFile, outfit_photo |-> NoFile,
     file_path |-> NoPath, calls |-> <<>>]

Init ==
    /\ config \in Configs
    /\ now = 0
    /\ issued = {}
    /\ storage = {}
    /\ db = {}
    /\ uuids = 0
    /\ inflight = [p \in Requests |-> Idle]
    /\ resp = Blank

\* ----------------------------------------------------------------- clock
\* the instants at which requests arrive: any amount of time may pass
\* between two requests
Instants == {0} \cup (MAX_AGE..MaxTime)

Tick ==
    /\ \E t \in Instants :
        /\ t > now
        /\ now' = t
    /\ UNCHANGED <<config, issued, storage, db, uuids, inflight, resp>>

\* ---------------------------------------------------------- page routes
\* GET /
\* the landing page is skipped for a visitor whose session verifies
RootRedirectsOnAnyCookie(cookie) == cookie.form \notin {"absent", "empty"}

RootRedirects(cookie) == TruthyEmail(get_current_user_email(cookie))

read_root(cookie) ==
    /\ resp' =
        IF RootRedirects(cookie)
        THEN RedirectResponse(Request("/", cookie), <<"/dashboard">>, 307)
        ELSE TemplateResponse(Request("/", cookie), TEMPLATE_LANDING, NoEmail)
    /\ UNCHANGED <<config, now, issued, storage, db, uuids, inflight>>

\* GET /dashboard
dashboard_page(cookie) ==
    /\ resp' =
        IF LoginRequired(cookie)
        THEN NotAuthorized(Request("/dashboard", cookie))
        ELSE TemplateResponse(Request("/dashboard", cookie), TEMPLATE_DASHBOARD,
                              get_current_user_email(cookie))
    /\ UNCHANGED <<config, now, issued, storage, db, uuids, inflight>>

\* GET /history: the rows of the caller, newest first; the order among rows
\* of equal created_at is the database's choice
ListingsOfAll(user_email) ==
    LET rows == db
    IN {s \in [1..Cardinality(rows) -> rows] :
            /\ \A i, j \in DOMAIN s : i # j => s[i] # s[j]
            /\ \A i, j \in DOMAIN s : i < j => s[i].created_at >= s[j].created_at}

Listings(user_email) ==
    LET rows == {row \in db : row.user_id = user_email}
    IN {s \in [1..Cardinality(rows) -> rows] :
            /\ \A i, j \in DOMAIN s : i # j => s[i] # s[j]
            /\ \A i, j \in DOMAIN s : i < j => s[i].created_at >= s[j].created_at}

history_page(cookie, query_ok) ==
    /\ IF LoginRequired(cookie)
       THEN resp' = NotAuthorized(Request("/history", cookie))
       ELSE \E images \in (IF config.supabase /\ query_ok
                           THEN Listings(get_current_user_email(cookie))
                           ELSE {<<>>}) :
              resp' = [TemplateResponse(Request("/history", cookie), TEMPLATE_HISTORY,
                                        get_current_user_email(cookie))
                       EXCEPT !.images = images,
                              !.calls = IF config.supabase
                                        THEN <<Call("select", query_ok)>> ELSE <<>>]
    /\ UNCHANGED <<config, now, issued, storage, db, uuids, inflight>>

\* ------------------------------------------------------------ OAuth client
\* GET /auth/logout: the handler takes no request and no dependency, so the
\* cookie the browser sends is never looked at
logoutGated(cookie) ==
    /\ resp' = IF LoginRequired(cookie)
               THEN NotAuthorized(Request("/auth/logout", cookie))
               ELSE [RedirectResponse(Request("/auth/logout", cookie), <<"/">>, 307)
                     EXCEPT !.set_cookie = [NoSetCookie EXCEPT !.op = "delete",
                                                               !.key = COOKIE_NAME]]
    /\ UNCHANGED <<config, now, issued, storage, db, uuids, inflight>>

logout(cookie) ==
    /\ resp' = [RedirectResponse(Request("/auth/logout", cookie), <<"/">>, 307)
                EXCEPT !.set_cookie = [NoSetCookie EXCEPT !.op = "delete",
                                                          !.key = COOKIE_NAME]]
    /\ UNCHANGED <<config, now, issued, storage, db, uuids, inflight>>

\* GET /auth/google/login: urlencode(params) appended to the provider's URL
AuthLocation ==
    <<AUTH_URL, "client_id", config.GOOGLE_CLIENT_ID,
      "redirect_uri", config.GOOGLE_REDIRECT_URI,
      "response_type", "code", "scope", "openid email profile",
      "access_type", "online", "prompt", "select_account">>

login_google ==
    /\ resp' = RedirectResponse(Request("/auth/google/login", Absent), AuthLocation, 307)
    /\ UNCHANGED <<config, now, issued, storage, db, uuids, inflight>>

\* what the provider may answer: the token endpoint fails (non-2xx, no
\* connection), answers 2xx without access_token, or with one; the userinfo
\* endpoint fails or answers 2xx, with or without an e-mail
TokenResponses == {"error", "no_token", "ok"}
UserResponses == {"error", "ok"}
ProviderEmails == Emails \cup {NoEmail}

\* the cookie google_callback sets
SessionCookieScriptable(session_token) ==
    [op |-> "set", key |-> COOKIE_NAME, value |-> session_token,
     httponly |-> FALSE, max_age |-> 86400, samesite |-> "lax"]

SessionCookie(session_token) ==
    [op |-> "set", key |-> COOKIE_NAME, value |-> session_token,
     httponly |-> TRUE, max_age |-> 86400, samesite |-> "lax"]

\* line 257: the callback gives up before any provider call
CallbackAbortsOnCodeOnly(code, error) == ~Truthy(code)

CallbackAborts(code, error) == Truthy(error) \/ ~Truthy(code)

\* GET /auth/google/callback
google_callback(code, error, token_resp, user_resp, provider_email) ==
    LET r == [Request("/auth/google/callback", Absent)
              EXCEPT !.code = code, !.error = error, !.token_resp = token_resp,
                     !.user_resp = user_resp, !.provider_email = provider_email]
        session_token == serializer_dumps(Dict(provider_email))
    IN
    IF CallbackAborts(code, error)
    THEN /\ resp' = RedirectResponse(r, <<"/">>, 307)
         /\ UNCHANGED <<config, now, issued, storage, db, uuids, inflight>>
    ELSE IF token_resp = "error"
    THEN /\ resp' = [RedirectResponse(r, <<"/">>, 307)
                     EXCEPT !.calls = <<Call("token", FALSE)>>]
         /\ UNCHANGED <<config, now, issued, storage, db, uuids, inflight>>
    ELSE IF user_resp = "error"
    THEN /\ resp' = [RedirectResponse(r, <<"/">>, 307)
                     EXCEPT !.calls = <<Call("token", TRUE), Call("userinfo", FALSE)>>]
         /\ UNCHANGED <<config, now, issued, storage, db, uuids, inflight>>
    ELSE /\ Cardinality(issued \cup {session_token}) <= MaxIssued
         /\ issued' = issued \cup {session_token}
         /\ resp' = [RedirectResponse(r, <<"/dashboard">>, 302)
                     EXCEPT !.calls = <<Call("token", TRUE), Call("userinfo", TRUE)>>,
                            !.set_cookie = SessionCookie(session_token)]
         /\ UNCHANGED <<config, now, storage, db, uuids, inflight>>

\* --------------------------------------------------------- POST /api/generate
\* the file parts of the multipart body: a photo with an extension, a photo
\* without, and an empty part
Photo ==
    [filename |-> <<"m", ".", "p", "n", "g">>, content |-> <<1>>,
     content_type |-> "image/png"]
EmptyPart == [filename |-> <<".", "e">>, content |-> <<>>, content_type |-> None]
Files == {Photo, EmptyPart}

\* str.replace on a sequence of characters
RECURSIVE Replace(_, _, _)
Replace(s, ch, rep) ==
    IF s = <<>> THEN <<>>
    ELSE (IF Head(s) = ch THEN rep ELSE <<Head(s)>>) \o Replace(Tail(s), ch, rep)

safe_user_id(user_email) ==
    Replace(Replace(user_email, "@", <<"_", "a", "t", "_">>),
            ".", <<"_", "d", "o", "t", "_">>)

\* str.rfind, counting from 1 (0: not found)
RFind(s, ch) ==
    LET at == {i \in 1..Len(s) : s[i] = ch}
    IN IF at = {} THEN 0 ELSE CHOOSE i \in at : \A j \in at : j <= i

\* os.path.splitext(p)[1]: from the last dot of the last path component,
\* leading dots not counted
splitext_ext(p) ==
    LET sep == RFind(p, "/")
        dot == RFind(p, ".")
    IN IF dot > sep /\ \E i \in (sep + 1)..(dot - 1) : p[i] # "."
       THEN SubSeq(p, dot, Len(p))
       ELSE <<>>

\* the storage key f"{safe_user_id}/{file_uuid}{ext}"
FilePathWithoutUuid(user_email, file_uuid, filename) ==
    [folder |-> safe_user_id(user_email), file_uuid |-> 0,
     ext |-> IF splitext_ext(filename) # <<>> THEN splitext_ext(filename)
             ELSE <<".", "j", "p", "g">>]

FilePath(user_email, file_uuid, filename) ==
    [folder |-> safe_user_id(user_email), file_uuid |-> file_uuid,
     ext |-> IF splitext_ext(filename) # <<>> THEN splitext_ext(filename)
             ELSE <<".", "j", "p", "g">>]

\* supabase.storage.from_(bucket).get_public_url(path)
get_public_url(bucket_name, file_path) == <<bucket_name, file_path>>

\* the response FastAPI makes of HTTPException(status_code=500, detail=...)
ServerErrorAsOk(r, detail) == [r EXCEPT !.status = 200, !.body = detail]

ServerError(r, detail) == [r EXCEPT !.status = 500, !.body = detail]

GenRequest(q) ==
    [Request("/api/generate", q.cookie)
     EXCEPT !.at = q.at, !.user_email = q.user_email,
            !.user_photo = q.user_photo, !.outfit_photo = q.outfit_photo,
            !.file_path = q.file_path, !.calls = q.calls]

\* lines 144-202: the gate, the configuration check, the reads, the key
generate_begin(p, cookie, user_photo, outfit_photo) ==
    LET q == [Idle EXCEPT !.cookie = cookie, !.at = now,
                          !.user_photo = user_photo, !.outfit_photo = outfit_photo,
                          !.user_email = get_current_user_email(cookie)]
    IN
    /\ inflight[p].pc = "idle"
    /\ \A other \in Requests : other < p => inflight[other].pc # "idle"
    /\ IF LoginRequired(cookie)
       THEN /\ resp' = NotAuthorized(Request("/api/generate", cookie))
            /\ UNCHANGED <<uuids, inflight>>
       ELSE IF user_photo = NoFile \/ outfit_photo = NoFile
       THEN /\ resp' = [GenRequest(q) EXCEPT !.status = 422, !.body = "Field required"]
            /\ UNCHANGED <<uuids, inflight>>
       ELSE IF ~config.supabase
       THEN /\ resp' = ServerError(GenRequest(q), "Supabase not configured.")
            /\ UNCHANGED <<uuids, inflight>>
       ELSE /\ uuids < MaxUploads
            /\ uuids' = uuids + 1
            /\ inflight' = [inflight EXCEPT ![p] =
                   [q EXCEPT !.pc = "upload",
                             !.file_path = FilePath(q.user_email, uuids + 1,
                                                    user_photo.filename)]]
            /\ UNCHANGED resp
    /\ UNCHANGED <<config, now, issued, storage, db>>

\* lines 204-208: supabase.storage.from_(bucket_name).upload(...)
StoredObject(q) ==
    [path |-> q.file_path, file |-> q.user_photo.content,
     content_type |-> IF Truthy(q.user_photo.content_type)
                      THEN q.user_photo.content_type ELSE "image/jpeg"]

generate_upload(p, ok) ==
    LET q == [inflight[p] EXCEPT !.calls = Append(@, Call("upload", ok))]
    IN
    /\ inflight[p].pc = "upload"
    /\ IF ok
       THEN /\ storage' = storage \cup {StoredObject(q)}
            /\ inflight' = [inflight EXCEPT ![p] = [q EXCEPT !.pc = "insert"]]
            /\ UNCHANGED resp
       ELSE /\ resp' = ServerError(GenRequest(q), "upload failed")
            /\ inflight' = [inflight EXCEPT ![p] = Idle]
            /\ UNCHANGED storage
    /\ UNCHANGED <<config, now, issued, db, uuids>>

\* lines 211-223: the public URL, the insert, the JSON body
OutfitRecordOfKey(q) ==
    [user_id |-> q.user_email,
     image_url |-> <<"", q.file_path>>,
     created_at |-> now]

OutfitRecordOfSafeId(q) ==
    [user_id |-> safe_user_id(q.user_email),
     image_url |-> get_public_url("outfit_images", q.file_path),
     created_at |-> now]

OutfitRecord(q) ==
    [user_id |-> q.user_email,
     image_url |-> get_public_url("outfit_images", q.file_path),
     created_at |-> now]

generate_insert(p, ok) ==
    LET q == [inflight[p] EXCEPT !.calls = Append(@, Call("insert", ok))]
    IN
    /\ inflight[p].pc = "insert"
    /\ IF ok
       THEN /\ db' = db \cup {OutfitRecord(q)}
            /\ resp' = [GenRequest(q) EXCEPT !.status = 200, !.body = "success",
                            !.image_url = get_public_url("outfit_images", q.file_path)]
       ELSE /\ resp' = ServerError(GenRequest(q), "insert failed")
            /\ UNCHANGED db
    /\ inflight' = [inflight EXCEPT ![p] = Idle]
    /\ UNCHANGED <<config, now, issued, storage, uuids>>

\* ------------------------------------------------------------------ Next
Params == {None, "", "value"}

\* the provider's answers to the calls the callback makes: an answer to a
\* call that is never made is not an input
CallbackInputs ==
    {x \in [code : Params, error : Params, token_resp : TokenResponses,
            user_resp : UserResponses, email : ProviderEmails] :
        /\ (Truthy(x.error) \/ ~Truthy(x.code)) => x.token_resp = "error"
        /\ x.token_resp = "error" => x.user_resp = "error"
        /\ x.user_resp = "error" => x.email = NoEmail}

\* the multipart bodies: a request the gate turns away is never parsed by
\* the handler, so its file parts are not an input
GenerateInputs ==
    {x \in [cookie : OutfitCookies, user_photo : Files \cup {NoFile},
            outfit_photo : Files \cup {NoFile}] :
        /\ LoginRequired(x.cookie) => x.user_photo = NoFile /\ x.outfit_photo = NoFile
        /\ NoFile \in {x.user_photo, x.outfit_photo} =>
                {x.user_photo, x.outfit_photo} \subseteq {NoFile, Photo}
        /\ EmptyPart \in {x.user_photo, x.outfit_photo} =>
                Photo \in {x.user_photo, x.outfit_photo}}

Callback ==
    \E x \in CallbackInputs :
        google_callback(x.code, x.error, x.token_resp, x.user_resp, x.email)

\* a login that succeeds at the provider
Login ==
    \E e \in Emails : google_callback("value", None, "ok", "ok", e)

NextSession ==
    \/ Tick
    \/ \E c \in Cookies : read_root(c)
    \/ \E c \in Cookies : dashboard_page(c)
    \/ \E c \in LogoutCookies : logout(c)
    \/ login_google
    \/ Callback

NextOutfits ==
    \/ Login
    \/ \E c \in OutfitCookies, ok \in BOOLEAN : history_page(c, ok)
    \/ \E p \in Requests, x \in GenerateInputs :
            generate_begin(p, x.cookie, x.user_photo, x.outfit_photo)
    \/ \E p \in Requests, ok \in BOOLEAN : generate_upload(p, ok)
    \/ \E p \in Requests, ok \in BOOLEAN : generate_insert(p, ok)

Next == NextSession \/ NextOutfits

\* the whole service
Spec == Init /\ [][Next]_vars

\* sessions: the clock, the pages, the OAuth legs; none of these handlers
\* reads the supabase client
InitSession == Init /\ config.supabase
SpecSession == InitSession /\ [][NextSession]_vars

\* outfits: sessions issued at one instant, generation and history, with
\* the OAuth client and the signing key configured
InitOutfits ==
    /\ Init
    /\ config.GOOGLE_CLIENT_ID # None
    /\ config.GOOGLE_REDIRECT_URI # None
    /\ config.SESSION_SECRET_KEY # DEFAULT_SECRET_KEY
SpecOutfits == InitOutfits /\ [][NextOutfits]_vars

\* the archive over time: sessions opened at the start, then pages, listings
\* and generations (with storage and the insert answering) as time passes
NextArchive ==
    \/ (now = 0 /\ Login)
    \/ Tick
    \/ \E c \in LogoutCookies : read_root(c)
    \/ \E c \in LogoutCookies : dashboard_page(c)
    \/ \E c \in OutfitCookies, ok \in BOOLEAN : history_page(c, ok)
    \/ \E p \in Requests, c \in issued : generate_begin(p, c, Photo, Photo)
    \/ \E p \in Requests : generate_upload(p, TRUE)
    \/ \E p \in Requests : generate_insert(p, TRUE)
SpecArchive == InitOutfits /\ [][NextArchive]_vars

\* ============================================================ properties
\* what a claim means by a session: a token signed with the server's key,
\* no older than the TTL at the time of the request, carrying an e-mail
WellSigned(c) ==
    c.form = "token" /\ c.sig = Sign(config.SESSION_SECRET_KEY, c.payload, c.ts)
SessionValid(c, at) ==
    /\ WellSigned(c)
    /\ at - c.ts <= 86400
    /\ c.payload.type = "dict"
    /\ TruthyEmail(c.payload.email)
IsRedirectTo(r, url) == r.status \in 300..399 /\ r.location = url
OnCallback == resp.route = "/auth/google/callback"
OnGenerate == resp.route = "/api/generate"

\* C1: GET /dashboard with a session cookie that is absent, malformed,
\* unverifiable or older than the TTL answers a 3xx redirect to "/" and
\* renders nothing of the dashboard; no such request ends in a server error.
C1_DashboardGate ==
    (/\ resp.route = "/dashboard"
     /\ \/ resp.cookie.form # "token"
        \/ ~WellSigned(resp.cookie)
        \/ resp.at - resp.cookie.ts > 86400)
    => /\ IsRedirectTo(resp, <<"/">>)
       /\ resp.body # TEMPLATE_DASHBOARD
       /\ resp.user_email = NoEmail

\* C1 witness: a token the callback issued, presented after its TTL, was
\* turned away from the dashboard
C1_ExpiredTurnedAway ==
    /\ resp.route = "/dashboard"
    /\ resp.cookie \in issued
    /\ TruthyEmail(resp.cookie.payload.email)
    /\ resp.at - resp.cookie.ts > 86400
    /\ resp.status = 307

\* C2: the callback with a code (and no error), a token exchange that
\* returns an access token and a userinfo answer with an e-mail redirects
\* to /dashboard and sets the session cookie, HttpOnly, SameSite=Lax, max
\* age 86400, whose payload decodes to the provider's e-mail.
C2_CallbackIssuesSession ==
    (/\ OnCallback
     /\ Truthy(resp.code) /\ ~Truthy(resp.error)
     /\ resp.token_resp = "ok" /\ resp.user_resp = "ok"
     /\ resp.provider_email \in Emails)
    => /\ IsRedirectTo(resp, <<"/dashboard">>)
       /\ resp.set_cookie.op = "set"
       /\ resp.set_cookie.key = "outfitoo_session"
       /\ resp.set_cookie.httponly
       /\ resp.set_cookie.samesite = "lax"
       /\ resp.set_cookie.max_age = 86400
       /\ resp.set_cookie.value.payload = Dict(resp.provider_email)
       /\ now = resp.at =>
            get_current_user_email(resp.set_cookie.value) = resp.provider_email

\* C2 witness: a callback that logged Alice in
C2_AliceLoggedIn ==
    /\ OnCallback
    /\ resp.token_resp = "ok" /\ resp.user_resp = "ok"
    /\ resp.provider_email = Alice
    /\ resp.set_cookie.op = "set"
    /\ resp.location = <<"/dashboard">>

\* C3 as stated: the callback carrying an error parameter, with or without
\* a code, sets no cookie, calls the provider never and redirects to "/".
C3_AnyErrorParameterAborts ==
    (OnCallback /\ resp.error # None)
    => /\ resp.set_cookie.op = "none"
       /\ resp.calls = <<>>
       /\ IsRedirectTo(resp, <<"/">>)

\* C3 amended: the callback carrying a non-empty error parameter, with or
\* without a code, sets no cookie, calls the provider never and redirects
\* to "/".
C3_NonEmptyErrorAborts ==
    (OnCallback /\ resp.error # None /\ resp.error # "")
    => /\ resp.set_cookie.op = "none"
       /\ resp.calls = <<>>
       /\ IsRedirectTo(resp, <<"/">>)

\* C3 witness: an error parameter arrived together with a code
C3_ErrorWithCode ==
    /\ OnCallback
    /\ resp.error = "value" /\ resp.code = "value"
    /\ resp.status = 307 /\ resp.location = <<"/">>

\* C4: when the token exchange fails (non-2xx, or 2xx without
\* access_token) or the userinfo call fails, the callback sets no session
\* cookie and redirects to "/".
C4_FailedLegCreatesNoSession ==
    (/\ OnCallback
     /\ Truthy(resp.code) /\ ~Truthy(resp.error)
     /\ \/ resp.token_resp \in {"error", "no_token"}
        \/ resp.user_resp = "error")
    => /\ resp.set_cookie.op = "none"
       /\ IsRedirectTo(resp, <<"/">>)

\* C5: a token issued at t verifies at time now exactly when
\* now - t <= 86400: still at now = t + 86400, no longer after.
C5_ValidUpToMaxAge ==
    /\ \A t \in issued : LoadsOk(t, MAX_AGE) <=> (now - t.ts <= 86400)
    /\ \A t \in issued :
         TruthyEmail(t.payload.email) =>
            (get_current_user_email(t) = t.payload.email <=> now - t.ts <= 86400)
    /\ (/\ resp.route = "/dashboard"
        /\ resp.cookie \in issued
        /\ TruthyEmail(resp.cookie.payload.email))
       => (resp.status = 200 <=> resp.at - resp.cookie.ts <= 86400)

\* C5 witness: a token exactly 86400 seconds old opened the dashboard
C5_AcceptedAtBoundary ==
    /\ resp.route = "/dashboard"
    /\ resp.cookie \in issued
    /\ resp.at - resp.cookie.ts = 86400
    /\ resp.status = 200
    /\ resp.user_email = resp.cookie.payload.email

\* C6: POST /api/generate without a valid session is rejected with a
\* 401/403-class status, not a redirect, and writes nothing.
C6_ApiGateRejects4xx ==
    (OnGenerate /\ ~SessionValid(resp.cookie, resp.at))
    => /\ resp.status \in 400..499
       /\ resp.calls = <<>>

\* C7: POST /api/generate with a valid session, two non-empty parts and
\* collaborators that succeed makes one storage write, then one insert,
\* and answers success with the public URL of the object written, which
\* is the URL of the inserted record.
C7_GenerateStoresThenRecords ==
    (/\ OnGenerate
     /\ SessionValid(resp.cookie, resp.at)
     /\ resp.user_photo # NoFile /\ resp.user_photo.content # <<>>
     /\ resp.outfit_photo # NoFile /\ resp.outfit_photo.content # <<>>
     /\ config.supabase
     /\ \A i \in DOMAIN resp.calls : resp.calls[i].ok)
    => /\ resp.status = 200 /\ resp.body = "success"
       /\ resp.calls = <<Call("upload", TRUE), Call("insert", TRUE)>>
       /\ \E o \in storage :
            /\ resp.image_url = <<"outfit_images", o.path>>
            /\ o.file = resp.user_photo.content
            /\ \A other \in storage : other.path = o.path => other = o
       /\ \E row \in db :
            /\ row.image_url = resp.image_url
            /\ row.user_id = resp.cookie.payload.email
            /\ \A other \in db : other.image_url = resp.image_url => other = row

\* C7 witness: a generation with two photos succeeded
C7_Generated ==
    /\ OnGenerate
    /\ resp.status = 200
    /\ resp.user_photo.content # <<>> /\ resp.outfit_photo.content # <<>>
    /\ resp.image_url # NoUrl

\* C8: POST /api/generate with a valid session and an empty file part is
\* rejected with a 4xx before any external call (the storage client being
\* configured).
C8_EmptyPartRejected ==
    (/\ OnGenerate
     /\ SessionValid(resp.cookie, resp.at)
     /\ config.supabase
     /\ resp.user_photo # NoFile /\ resp.outfit_photo # NoFile
     /\ resp.user_photo.content = <<>> \/ resp.outfit_photo.content = <<>>)
    => /\ resp.status \in 400..499
       /\ resp.calls = <<>>

\* C9: a failed upload ends in a 5xx with no insert attempted; a failed
\* insert after the upload ends in a 5xx, leaves the object in storage and
\* no record of it; neither answers a success body with image_url.
C9_FailureLeavesNoRecord ==
    (OnGenerate /\ \E i \in DOMAIN resp.calls : ~resp.calls[i].ok)
    => /\ resp.status \in 500..599
       /\ resp.body # "success" /\ resp.image_url = NoUrl
       /\ \A row \in db : row.image_url # <<"outfit_images", resp.file_path>>
       /\ ~resp.calls[1].ok =>
            /\ resp.calls = <<Call("upload", FALSE)>>
            /\ \A o \in storage : o.path # resp.file_path
       /\ resp.calls[1].ok =>
            /\ resp.calls = <<Call("upload", TRUE), Call("insert", FALSE)>>
            /\ \E o \in storage : o.path = resp.file_path

\* C9 witness: an insert failed after its upload and left the object
C9_Orphaned ==
    /\ OnGenerate
    /\ resp.calls = <<Call("upload", TRUE), Call("insert", FALSE)>>
    /\ resp.status = 500
    /\ \E o \in storage : o.path = resp.file_path

\* C10: GET /auth/google/login redirects to the provider's authorization
\* URL exactly when client_id and redirect_uri are both configured, and
\* fails otherwise.
C10_LoginNeedsClientConfig ==
    resp.route = "/auth/google/login"
    => ((resp.status \in 300..399 /\ resp.location[1] = AUTH_URL)
        <=> (config.GOOGLE_CLIENT_ID # None /\ config.GOOGLE_REDIRECT_URI # None))

\* C11: whatever generations any identities have made, the history page of
\* a signed-in caller lists only rows owned by the caller, rows that are
\* in the table, newest first; when the select fails (or there is no
\* client) the page still renders, with an empty list.
C11_HistoryListsOwnNewestFirst ==
    (resp.route = "/history" /\ SessionValid(resp.cookie, resp.at))
    => /\ resp.status = 200 /\ resp.body = TEMPLATE_HISTORY
       /\ \A i \in DOMAIN resp.images :
            /\ resp.images[i] \in db
            /\ resp.images[i].user_id = resp.cookie.payload.email
       /\ \A i, j \in DOMAIN resp.images :
            i < j => resp.images[i].created_at >= resp.images[j].created_at
       /\ resp.calls # <<Call("select", TRUE)>> => resp.images = <<>>

\* C11 witness: the caller's listing shows two rows made at different
\* times, the newer first
C11_TwoRowsListed ==
    /\ resp.route = "/history"
    /\ Len(resp.images) = 2
    /\ resp.images[1].created_at > resp.images[2].created_at
    /\ resp.images[1].user_id = resp.cookie.payload.email

\* C12: GET /auth/logout asks for no session: whatever cookie the request
\* carries (valid, expired, malformed or none) the answer is a redirect to
\* "/" that tells the browser to delete the session cookie, and the step
\* changes nothing else on the server.
C12_LogoutClearsAndRedirects ==
    /\ [](resp.route = "/auth/logout" =>
            /\ IsRedirectTo(resp, <<"/">>)
            /\ resp.body # "Not authorized"
            /\ resp.set_cookie.op = "delete"
            /\ resp.set_cookie.key = COOKIE_NAME)
    /\ [][(resp'.route = "/auth/logout" /\ resp' # resp) =>
            UNCHANGED <<config, now, issued, storage, db, uuids, inflight>>]_vars

\* C12 witness: a logout carrying a cookie that is no session was answered
\* with the redirect and the deletion
C12_LoggedOutWithoutSession ==
    /\ resp.route = "/auth/logout"
    /\ resp.cookie = Garbage
    /\ IsRedirectTo(resp, <<"/">>)
    /\ resp.set_cookie.op = "delete"

\* C13: GET / redirects to /dashboard exactly when the cookie verifies
\* (signed by the server, within the TTL, non-empty e-mail) and renders the
\* landing page otherwise; following the redirects between "/" and
\* "/dashboard" with the same cookie ends at a rendered page: a browser
\* sent from /dashboard to "/" gets the landing page, and one sent from "/"
\* to /dashboard at that instant gets the dashboard.
C13_RootRedirectsIffSession ==
    /\ [](resp.route = "/" =>
            IF SessionValid(resp.cookie, resp.at)
            THEN IsRedirectTo(resp, <<"/dashboard">>)
            ELSE resp.status = 200 /\ resp.body = TEMPLATE_LANDING)
    /\ [][(/\ resp.route = "/dashboard" /\ IsRedirectTo(resp, <<"/">>)
           /\ resp'.route = "/" /\ resp'.cookie = resp.cookie)
          => (resp'.status = 200 /\ resp'.body = TEMPLATE_LANDING)]_vars
    /\ [][(/\ resp.route = "/" /\ IsRedirectTo(resp, <<"/dashboard">>)
           /\ resp'.route = "/dashboard" /\ resp'.cookie = resp.cookie
           /\ resp'.at = resp.at)
          => (resp'.status = 200 /\ resp'.body = TEMPLATE_DASHBOARD)]_vars

\* C13 witness: a visitor whose session had expired was shown the landing
\* page
C13_ExpiredSeesLanding ==
    /\ resp.route = "/"
    /\ resp.cookie \in issued
    /\ TruthyEmail(resp.cookie.payload.email)
    /\ resp.at - resp.cookie.ts > 86400
    /\ resp.status = 200 /\ resp.body = TEMPLATE_LANDING

\* C14: for every e-mail, the token issued for it, verified at the instant
\* it was issued, is accepted and yields that e-mail; so does the cookie a
\* callback has just set, for the e-mail the provider gave.
C14_IssueThenVerifyRoundTrip ==
    /\ \A e \in Emails :
            /\ LoadsOk(serializer_dumps(Dict(e)), MAX_AGE)
            /\ get_current_user_email(serializer_dumps(Dict(e))) = e
    /\ (OnCallback /\ resp.set_cookie.op = "set" /\ resp.at = now) =>
            /\ LoadsOk(resp.set_cookie.value, MAX_AGE)
            /\ get_current_user_email(resp.set_cookie.value) = resp.provider_email

\* C14 witness: the cookie just set for Bob verifies as Bob
C14_BobRoundTrip ==
    /\ OnCallback
    /\ resp.set_cookie.op = "set"
    /\ resp.at = now
    /\ resp.provider_email = Bob
    /\ get_current_user_email(resp.set_cookie.value) = Bob

\* C15: a cookie that is not an unmodified token issued by a successful
\* callback (tampered payload or signature, or never issued by the server)
\* is turned away: every request that passes the gate carries a token the
\* callback issued.
C15_OnlyIssuedTokensPass ==
    (resp.route = "/dashboard" /\ resp.status = 200) => resp.cookie \in issued

\* C16: the gate, the protected routes and GET / never set or re-issue the
\* session cookie: a cookie is set, and a token minted, only by a callback
\* that redirects to /dashboard; there is no sliding expiration, a token
\* older than 86400 s is turned away however many requests it has
\* authenticated before.
C16_NoRouteRenewsSession ==
    /\ [](/\ resp.route \in {"/", "/dashboard", "/history", "/api/generate"} =>
                resp.set_cookie = NoSetCookie
          /\ resp.set_cookie.op = "set" =>
                /\ OnCallback /\ IsRedirectTo(resp, <<"/dashboard">>)
                /\ resp.set_cookie.value \in issued
                /\ resp.set_cookie.value.ts = resp.at
          /\ (/\ resp.route \in {"/dashboard", "/history", "/api/generate"}
              /\ resp.cookie \in issued
              /\ resp.at - resp.cookie.ts > 86400) =>
                resp.status = 307 /\ resp.body = "Not authorized")
    /\ [][issued' # issued =>
            /\ resp'.route = "/auth/google/callback"
            /\ issued' = issued \cup {resp'.set_cookie.value}]_vars

\* C16 witness: a session that authenticated a generation in its last
\* valid second was turned away one second later
C16_ExpiredDespiteActivity ==
    /\ resp.route = "/history"
    /\ resp.cookie \in issued
    /\ resp.at - resp.cookie.ts > 86400
    /\ resp.status = 307
    /\ \E row \in db :
            /\ row.user_id = resp.cookie.payload.email
            /\ row.created_at - resp.cookie.ts = 86400

\* C17: whether a cookie is accepted depends only on the token, the
\* server's key and the time, never on what the server has seen: every
\* cookie, issued here or not, is accepted exactly when it is signed with
\* the key, within the TTL and carries an e-mail; and a token presented to
\* /dashboard right after the logout that carried it is still accepted
\* while it is within its TTL.
C17_ValidityIsStateless ==
    /\ [](\A c \in Cookies :
            TruthyEmail(get_current_user_email(c)) <=> SessionValid(c, now))
    /\ [][(/\ resp.route = "/auth/logout"
           /\ resp'.route = "/dashboard"
           /\ resp'.cookie = resp.cookie
           /\ SessionValid(resp'.cookie, resp'.at))
          => (/\ resp'.status = 200 /\ resp'.body = TEMPLATE_DASHBOARD
              /\ resp'.user_email = resp'.cookie.payload.email)]_vars

\* C17 witness: a day after the logout that carried it, the token still
\* verifies
C17_AcceptedAfterLogout ==
    /\ resp.route = "/auth/logout"
    /\ resp.cookie \in issued
    /\ now - resp.at = 86400
    /\ TruthyEmail(get_current_user_email(resp.cookie))

\* C18: generations in flight at the same time, from one identity or
\* several, never share a storage key; neither waits for the other (its
\* upload and its insert can always go ahead); each success adds one new
\* row for its own object; and no step removes or rewrites a stored object
\* or a row.
C18_ConcurrentGenerationsIndependent ==
    /\ [](/\ \A p, q \in Requests :
                (p # q /\ inflight[p].pc # "idle" /\ inflight[q].pc # "idle")
                => inflight[p].file_path # inflight[q].file_path
          /\ \A p \in Requests :
                /\ inflight[p].pc = "upload" =>
                        /\ ENABLED generate_upload(p, TRUE)
                        /\ \A o \in storage : o.path # inflight[p].file_path
                /\ inflight[p].pc = "insert" =>
                        /\ ENABLED generate_insert(p, TRUE)
                        /\ \A row \in db :
                                row.image_url # <<"outfit_images", inflight[p].file_path>>
          /\ \A o1, o2 \in storage : o1.path = o2.path => o1 = o2
          /\ \A r1, r2 \in db : r1.image_url = r2.image_url => r1 = r2)
    /\ [][db \subseteq db' /\ storage \subseteq storage']_vars
    /\ [][(resp'.route = "/api/generate" /\ resp'.status = 200 /\ resp' # resp) =>
            /\ Cardinality(db') = Cardinality(db) + 1
            /\ \E row \in db' \ db :
                    /\ row.image_url = resp'.image_url
                    /\ row.user_id = resp'.user_email
            /\ \E o \in storage : <<"outfit_images", o.path>> = resp'.image_url]_vars

\* C18 witness: two generations of one identity in flight together, both
\* uploaded under different keys, neither recorded yet
C18_TwoInFlightSameIdentity ==
    /\ inflight[1].pc = "insert" /\ inflight[2].pc = "insert"
    /\ inflight[1].user_email = inflight[2].user_email
    /\ inflight[1].file_path # inflight[2].file_path
    /\ Cardinality(storage) = 2
    /\ db = {}

\* C19: every row's owner is the e-mail of a session the callback issued,
\* the one that authenticated the request that inserted the row; its
\* image_url is the public URL of an object that request had already
\* uploaded, stored in the owner's folder; so there are never more rows
\* than stored objects.
C19_RowsOwnedAndBacked ==
    /\ [](/\ \A row \in db :
                /\ TruthyEmail(row.user_id)
                /\ \E t \in issued : t.payload.email = row.user_id
                /\ \E o \in storage :
                        /\ row.image_url = <<"outfit_images", o.path>>
                        /\ o.path.folder = safe_user_id(row.user_id)
          /\ Cardinality(db) <= Cardinality(storage))
    /\ [][\A row \in db' \ db :
            \E p \in Requests :
                /\ inflight[p].pc = "insert"
                /\ inflight[p].cookie \in issued
                /\ row.user_id = inflight[p].cookie.payload.email
                /\ inflight[p].calls = <<Call("upload", TRUE)>>
                /\ row.image_url = <<"outfit_images", inflight[p].file_path>>
                /\ \E o \in storage : o.path = inflight[p].file_path]_vars

\* C19 witness: a row backed by its object, next to an object that has no
\* row
C19_FewerRowsThanObjects ==
    /\ db # {}
    /\ Cardinality(db) < Cardinality(storage)
    /\ \A row \in db : \E o \in storage : row.image_url = <<"outfit_images", o.path>>

\* C20: the callback sets a session cookie only when the userinfo answer
\* carries a non-empty e-mail, and the cookie it sets on its redirect to
\* /dashboard, presented at once, passes the gate as that e-mail.
C20_CookieOnlyWithEmail ==
    (OnCallback /\ resp.set_cookie.op = "set") =>
        /\ TruthyEmail(resp.provider_email)
        /\ resp.at = now =>
                /\ ~LoginRequired(resp.set_cookie.value)
                /\ get_current_user_email(resp.set_cookie.value) = resp.provider_email
====
